---- MODULE Spec2Model ----
(***************************************************************************)
(* Model of the 'application create' deployment flow of ai-services:       *)
(* createCmd.RunE, setSMTLevel, verifyPodTemplateExists, the Spyre card    *)
(* pre-flight check and executePodTemplates with its per-layer goroutines, *)
(* the shared PCI address pool, envMutex and the buffered error channel.   *)
(***************************************************************************)
EXTENDS Integers, Sequences, FiniteSets, TLC

(* ------------------------------ bounds --------------------------------- *)
MaxLayers == 2
MaxLayerLen == 2
MaxFree == 2

(* --------------------------- input universes --------------------------- *)
\* template files that can exist in the application directory
TemplateNames == {"a", "b"}
\* names a metadata.yaml can mention; the file of a name may be missing from
\* the loaded templates
RefNames == TemplateNames
\* container names of each pod template (helpers.FetchContainerNames)
ContainersOf == [t \in TemplateNames |-> IF t = "a" THEN {"c1", "c2"} ELSE {"c1"}]
ContainerNames == {"c1", "c2"}

None == "none"

(* ------------------------- strconv.Atoi -------------------------------- *)
Digits == {"0", "1", "2"}
DigitVal(ch) == CASE ch = "0" -> 0 [] ch = "1" -> 1 [] ch = "2" -> 2 [] OTHER -> 0

RECURSIVE DecimalValue(_)
DecimalValue(s) ==
    IF s = <<>> THEN 0
    ELSE 10 * DecimalValue(SubSeq(s, 1, Len(s) - 1)) + DigitVal(s[Len(s)])

AllDigits(s) == Len(s) > 0 /\ \A i \in 1..Len(s) : s[i] \in Digits

\* strconv.Atoi: optional sign, then at least one decimal digit
Atoi(s) ==
    IF s # <<>> /\ s[1] \in {"-", "+"}
    THEN LET body == Tail(s) IN
         IF AllDigits(body)
         THEN [ok |-> TRUE, val |-> IF s[1] = "-" THEN 0 - DecimalValue(body) ELSE DecimalValue(body)]
         ELSE [ok |-> FALSE, val |-> 0]
    ELSE IF AllDigits(s) THEN [ok |-> TRUE, val |-> DecimalValue(s)]
         ELSE [ok |-> FALSE, val |-> 0]

(* ------------------ annotations and card demand ------------------------ *)
\* an annotation key is <<name, container>>; only the Spyre card count
\* annotation embeds a container name that the regex captures
SpyreCountKey == "spyre-count"
OtherKey == "description"

isSpyreCardAnnotation(key) ==
    IF key[1] = SpyreCountKey THEN [ok |-> TRUE, name |-> key[2]]
    ELSE [ok |-> FALSE, name |-> ""]

RECURSIVE SumOver(_, _)
SumOver(f, S) ==
    IF S = {} THEN 0
    ELSE LET x == CHOOSE y \in S : TRUE IN f[x] + SumOver(f, S \ {x})

\* Returns [err, spyreCards, spyreCardContainerMap]
\* (with an error the code returns 0 and the entries parsed so far, which
\* no caller reads: NextKey below has that return entry by entry)
fetchSpyreCardsFromPodAnnotations(annotations) ==
    LET matching == {k \in DOMAIN annotations : isSpyreCardAnnotation(k).ok}
        names == {isSpyreCardAnnotation(k).name : k \in matching}
        keyOf(n) == CHOOSE k \in matching : isSpyreCardAnnotation(k).name = n
        cmap == [n \in names |-> Atoi(annotations[keyOf(n)]).val]
    IN IF \E k \in matching : ~Atoi(annotations[k]).ok
       THEN [err |-> TRUE, spyreCards |-> 0, spyreCardContainerMap |-> << >>]
       ELSE [err |-> FALSE, spyreCards |-> SumOver(cmap, names), spyreCardContainerMap |-> cmap]

\* sum of the per-template totals; an error of any template is the error
calculateReqSpyreCards(fileNames, specs) ==
    LET tot == [t \in fileNames |-> fetchSpyreCardsFromPodAnnotations(specs[t]).spyreCards]
    IN IF \E t \in fileNames : fetchSpyreCardsFromPodAnnotations(specs[t]).err
       THEN [err |-> TRUE, total |-> 0]
       ELSE [err |-> FALSE, total |-> SumOver(tot, fileNames)]

\* mutant: the comparison is off by one
validateSpyreCardRequirements_offByOne(req, actual) == ~(actual + 1 < req)
validateSpyreCardRequirements(req, actual) == ~(actual < req)

(* ----------------------- template verification ------------------------- *)
RECURSIVE FlattenArray(_)
FlattenArray(layers) ==
    IF layers = <<>> THEN <<>> ELSE Head(layers) \o FlattenArray(Tail(layers))

verifyPodTemplateExists(loaded, layers) ==
    LET flat == FlattenArray(layers) IN
    /\ Len(flat) = Cardinality(loaded)
    /\ \A i \in 1..Len(flat) : flat[i] \in loaded

(* --------------------------- address pool ------------------------------ *)
\* removes the first count addresses of the pool; fails when count exceeds
\* what is left (or is not a count at all)
JoinAndRemove(pool, count) ==
    IF count < 0 \/ count > Len(pool)
    THEN [ok |-> FALSE, joined |-> <<>>, rest |-> pool]
    ELSE [ok |-> TRUE, joined |-> SubSeq(pool, 1, count), rest |-> SubSeq(pool, count + 1, Len(pool))]


(* ------------------------------ state ---------------------------------- *)
VARIABLES
    pc,                     \* position of createCmd.RunE
    result,                 \* what RunE returned ("none" while running)
    hostSMT,                \* the host's SMT level (ppc64_cpu --smt)
    smtSetOps,              \* number of ppc64_cpu --smt=N invocations
    tmpls,                  \* keys of the loaded template map
    podTemplateExecutions,  \* appMetadata.PodTemplateExecutions
    podSpecs,               \* annotations of each pod template file
    reqSpyreCardsCount,     \* result of calculateReqSpyreCards
    actualSpyreCardsCount,  \* len(pciAddresses) at discovery
    pciAddresses,           \* the shared pool of free PCI addresses
    layerIdx,               \* i+1 of the layer loop in executePodTemplates
    errCh,                  \* buffered error channel of the current layer
    retErrs,                \* errors joined into the returned error
    envMutex,               \* holder of envMutex ("none" when free)
    wpc,                    \* position of each layer goroutine
    wenv,                   \* env built by each goroutine: container -> addresses
    wtodo,                  \* containers still to serve inside the critical section
    wbuf,                   \* JoinAndRemove in progress: container and slice read
    submitted,              \* outcome of RunPodmanKubePlay per goroutine
    wfailed,                \* steps of each goroutine that returned an error
    probes,                 \* readiness outcomes of the created containers, in order
    rendered,               \* the template each goroutine looked up and rendered (line 311)
    wfr,                    \* one readiness check: the frame of WaitForContainerReadiness
    smt,                    \* setSMTLevel run step by step: its invocation frame
    del,                    \* 'application delete': the frame of deleteCmd.RunE
    calc                    \* calculateReqSpyreCards run key by key: its frame

vars == <<pc, result, hostSMT, smtSetOps, tmpls, podTemplateExecutions,
          podSpecs, reqSpyreCardsCount, actualSpyreCardsCount, pciAddresses, layerIdx,
          errCh, retErrs, envMutex, wpc, wenv, wtodo, wbuf, submitted, wfailed, probes,
          rendered, wfr, smt, del, calc>>

smtVars == <<hostSMT, smtSetOps>>
inputVars == <<tmpls, podTemplateExecutions, podSpecs, reqSpyreCardsCount,
               actualSpyreCardsCount>>
workerVars == <<wpc, wenv, wtodo, wbuf, submitted, wfailed, probes, rendered>>
layerVars == <<layerIdx, errCh, retErrs, envMutex>>
\* the frames of the operations that are checked on their own; a run of
\* 'application create' leaves them alone
sideVars == <<wfr, smt, del, calc>>
\* the state of createCmd.RunE apart from the host's SMT level
runVars == <<pc, result, inputVars, pciAddresses, layerVars, workerVars>>

\* one goroutine per (layer, position in the layer)
Workers == (1..MaxLayers) \X (1..MaxLayerLen)
WorkersOfLayer(i) ==
    IF i \in 1..Len(podTemplateExecutions)
    THEN {w \in Workers : w[1] = i /\ w[2] \in 1..Len(podTemplateExecutions[i])}
    ELSE {}
\* mutant: the goroutines of a layer share the loop variable and read it
\* after the loop has ended
TemplateOf_sharedLoopVar(w) ==
    podTemplateExecutions[w[1]][Len(podTemplateExecutions[w[1]])]

\* the template a goroutine works on: its body reads the loop variable
\* podTemplateName, not its parameter t; the variable is taken as the one of
\* the goroutine's own iteration (per-iteration loop variables, Go 1.22)
TemplateOf(w) == podTemplateExecutions[w[1]][w[2]]

\* appMetadata.SMTLevel is a *int: <<>> is nil, <<n>> points to n
NoTarget == <<>>
SMTTargets == {NoTarget, <<1>>, <<2>>}
\* actualSpyreCardsCount before line 105 has run
NotDiscovered == 0 - 1
NoBuf == [container |-> None, slice |-> <<>>]
NoEnv == [c \in ContainerNames |-> <<>>]

\* layers a metadata.yaml can declare
LayerSet == UNION {[1..n -> RefNames] : n \in 1..MaxLayerLen}
ExecutionSet == UNION {[1..n -> LayerSet] : n \in 0..MaxLayers}

\* annotation values found in the pod templates
AnnotationValues == {<<"0">>, <<"1">>, <<"-", "1">>, <<"x">>}
\* annotation sets of template t: a count annotation for each of its
\* containers, and one annotation that is not a card count
AnnotationSets(t) ==
    {[k \in {<<SpyreCountKey, c>> : c \in DOMAIN f} \cup {<<OtherKey, "c1">>} |->
        IF k[1] = SpyreCountKey THEN f[k[2]] ELSE <<"x">>]
     : f \in [ContainersOf[t] -> AnnotationValues]}

\* the frame of an operation that is not running
Idle == [pc |-> "idle"]

\* 'application create' before RunE has done anything
InitRunE ==
    /\ pc = "setSMT"
    /\ result = None
    /\ tmpls = {}
    /\ podTemplateExecutions = <<>>
    /\ podSpecs = << >>
    /\ reqSpyreCardsCount = 0
    /\ actualSpyreCardsCount = NotDiscovered
    /\ pciAddresses = <<>>
    /\ layerIdx = 1
    /\ errCh = <<>>
    /\ retErrs = <<>>
    /\ envMutex = None
    /\ wpc = [w \in Workers |-> None]
    /\ wenv = [w \in Workers |-> NoEnv]
    /\ wtodo = [w \in Workers |-> {}]
    /\ wbuf = [w \in Workers |-> NoBuf]
    /\ submitted = [w \in Workers |-> None]
    /\ wfailed = [w \in Workers |-> {}]
    /\ probes = [w \in Workers |-> <<>>]
    /\ rendered = [w \in Workers |-> None]

Init ==
    /\ InitRunE
    /\ hostSMT = 1
    /\ smtSetOps = 0
    /\ wfr = Idle /\ smt = Idle /\ del = Idle /\ calc = Idle

\* RunE returns err
Fail(e) == pc' = "done" /\ result' = e

(* --------------------------- setSMTLevel ------------------------------- *)
\* mutant: the verification error is recorded but RunE goes on
SetSMTLevel_errorIgnored ==
    /\ pc = "setSMT"
    /\ UNCHANGED <<sideVars, inputVars, pciAddresses, layerVars, workerVars>>
    /\ \E tgt \in SMTTargets \ {NoTarget, <<hostSMT>>}, setOutcome \in {"applied", "ignored"} :
        /\ smtSetOps' = smtSetOps + 1
        /\ hostSMT' = IF setOutcome = "applied" THEN tgt[1] ELSE hostSMT
        /\ pc' = "fetchNames"
        /\ result' = IF hostSMT' # tgt[1] THEN "SMTVerificationFailed" ELSE result

\* create.go 54-57 and 146-214: query, target from metadata, set, verify
SetSMTLevel ==
    /\ pc = "setSMT"
    /\ UNCHANGED <<sideVars, inputVars, pciAddresses, layerVars, workerVars>>
    /\ \E query \in {"err", "bad", "ok"} :
        IF query # "ok"
        THEN Fail("SMTQueryFailed") /\ UNCHANGED smtVars
        ELSE \/ Fail("SMTTargetFailed") /\ UNCHANGED smtVars
             \/ \E tgt \in SMTTargets :
                 IF tgt = NoTarget \/ tgt = <<hostSMT>>
                 THEN /\ pc' = "fetchNames" /\ result' = result
                      /\ UNCHANGED smtVars
                 ELSE \E setOutcome \in {"err", "applied", "ignored"}, verify \in {"err", "ok"} :
                      /\ smtSetOps' = smtSetOps + 1
                      /\ hostSMT' = IF setOutcome = "applied" THEN tgt[1] ELSE hostSMT
                      /\ IF setOutcome = "err" THEN Fail("SMTSetFailed")
                         ELSE IF verify = "err" THEN Fail("SMTVerifyQueryFailed")
                         ELSE IF hostSMT' # tgt[1] THEN Fail("SMTVerificationFailed")
                         ELSE pc' = "fetchNames" /\ result' = result

(* ---------------------- RunE, lines 59-118 ----------------------------- *)
\* FetchApplicationTemplatesNames and fetchAppTemplateIndex; the template
\* name was already resolved by getTargetSMTLevel from the same embedded files
FetchTemplateNames ==
    /\ pc = "fetchNames"
    /\ UNCHANGED <<smtVars, sideVars, inputVars, pciAddresses, layerVars, workerVars>>
    /\ \E ok \in BOOLEAN :
        IF ok THEN pc' = "loadTemplates" /\ result' = result
        ELSE Fail("ListTemplatesFailed")

LoadAllTemplates ==
    /\ pc = "loadTemplates"
    /\ UNCHANGED <<smtVars, sideVars, podTemplateExecutions, podSpecs, reqSpyreCardsCount,
                   actualSpyreCardsCount, pciAddresses, layerVars, workerVars>>
    /\ \/ Fail("ParseTemplatesFailed") /\ tmpls' = tmpls
       \/ \E loaded \in SUBSET TemplateNames :
            tmpls' = loaded /\ pc' = "loadMetadata" /\ result' = result

LoadMetadata ==
    /\ pc = "loadMetadata"
    /\ UNCHANGED <<smtVars, sideVars, tmpls, podSpecs, reqSpyreCardsCount,
                   actualSpyreCardsCount, pciAddresses, layerVars, workerVars>>
    /\ \/ Fail("ReadMetadataFailed") /\ podTemplateExecutions' = podTemplateExecutions
       \/ \E layers \in ExecutionSet :
            podTemplateExecutions' = layers /\ pc' = "verify" /\ result' = result

VerifyPodTemplates ==
    /\ pc = "verify"
    /\ UNCHANGED <<smtVars, sideVars, inputVars, pciAddresses, layerVars, workerVars>>
    /\ IF verifyPodTemplateExists(tmpls, podTemplateExecutions)
       THEN pc' = "calcReq" /\ result' = result
       ELSE Fail("VerifyPodTemplateFailed")

CalculateRequirements ==
    /\ pc = "calcReq"
    /\ UNCHANGED <<smtVars, sideVars, tmpls, podTemplateExecutions, actualSpyreCardsCount,
                   pciAddresses, layerVars, workerVars>>
    /\ \/ /\ tmpls # {}
          /\ Fail("LoadPodTemplateFailed")
          /\ UNCHANGED <<podSpecs, reqSpyreCardsCount>>
       \/ \E specs \in [tmpls -> UNION {AnnotationSets(t) : t \in TemplateNames}] :
            /\ \A t \in tmpls : specs[t] \in AnnotationSets(t)
            /\ podSpecs' = specs
            /\ LET r == calculateReqSpyreCards(tmpls, specs) IN
               IF r.err
               THEN Fail("InvalidAnnotationValue") /\ reqSpyreCardsCount' = reqSpyreCardsCount
               ELSE pc' = "findFree" /\ result' = result /\ reqSpyreCardsCount' = r.total

FindFreeSpyreCards ==
    /\ pc = "findFree"
    /\ UNCHANGED <<smtVars, sideVars, tmpls, podTemplateExecutions, podSpecs, reqSpyreCardsCount,
                   layerVars, workerVars>>
    /\ \/ Fail("FindFreeCardsFailed") /\ UNCHANGED <<pciAddresses, actualSpyreCardsCount>>
       \/ \E n \in 0..MaxFree :
            /\ pciAddresses' = [k \in 1..n |-> k]
            /\ actualSpyreCardsCount' = n
            /\ pc' = "validate" /\ result' = result

ValidateRequirements ==
    /\ pc = "validate"
    /\ UNCHANGED <<smtVars, sideVars, inputVars, pciAddresses, layerVars, workerVars>>
    /\ IF validateSpyreCardRequirements(reqSpyreCardsCount, actualSpyreCardsCount)
       THEN pc' = "connect" /\ result' = result
       ELSE Fail("InsufficientResources")

ConnectRuntime ==
    /\ pc = "connect"
    /\ UNCHANGED <<smtVars, sideVars, inputVars, pciAddresses, layerVars, workerVars>>
    /\ \E ok \in BOOLEAN :
        IF ok THEN pc' = "spawn" /\ result' = result
        ELSE Fail("ConnectFailed")


(* ------------------- executePodTemplates: the layer loop --------------- *)
\* the process is gone after a panic; nothing runs any more
Running == pc = "wait"

\* lines 286-325: make(chan error, len(layer)) and one goroutine per entry
SpawnLayer ==
    /\ pc = "spawn"
    /\ UNCHANGED <<smtVars, sideVars, inputVars, pciAddresses, retErrs, envMutex, layerIdx,
                   wenv, wtodo, wbuf, submitted, wfailed, probes, rendered>>
    /\ IF layerIdx > Len(podTemplateExecutions)
       THEN /\ pc' = "done" /\ result' = "ok"
            /\ UNCHANGED <<errCh, wpc>>
       ELSE /\ pc' = "wait" /\ result' = result
            /\ errCh' = <<>>
            /\ wpc' = [w \in Workers |-> IF w \in WorkersOfLayer(layerIdx) THEN "env" ELSE wpc[w]]

\* capacity of errCh: len(layer)
ErrChCap == Len(podTemplateExecutions[layerIdx])

\* the errors of errCh, each wrapped as "layer %d: %w" (line 333)
TaggedErrors == [k \in 1..Len(errCh) |->
                   [layer |-> layerIdx, w |-> errCh[k].w, step |-> errCh[k].step]]

\* the evaluation of lines 328-342 once the layer is left
Evaluate(errs) ==
    /\ UNCHANGED <<smtVars, sideVars, inputVars, pciAddresses, envMutex, workerVars>>
    /\ errCh' = <<>>
    /\ IF Len(errs) > 0
       THEN /\ retErrs' = errs
            /\ Fail("LayerFailed")
            /\ layerIdx' = layerIdx
       ELSE /\ retErrs' = retErrs
            /\ layerIdx' = layerIdx + 1
            /\ pc' = "spawn" /\ result' = result

\* mutant: no wg.Wait(), the layer is evaluated while goroutines still run
LayerBarrier_noWait ==
    /\ pc = "wait"
    /\ Evaluate(TaggedErrors)

\* mutant: the errors are kept but the loop goes on with the next layer
LayerBarrier_continue ==
    /\ pc = "wait"
    /\ \A w \in WorkersOfLayer(layerIdx) : wpc[w] = "done"
    /\ UNCHANGED <<smtVars, sideVars, inputVars, pciAddresses, envMutex, workerVars>>
    /\ errCh' = <<>>
    /\ retErrs' = retErrs \o TaggedErrors
    /\ layerIdx' = layerIdx + 1
    /\ pc' = "spawn" /\ result' = result

\* mutant: only the first error of the channel is returned
LayerBarrier_firstOnly ==
    /\ pc = "wait"
    /\ \A w \in WorkersOfLayer(layerIdx) : wpc[w] = "done"
    /\ Evaluate(IF TaggedErrors = <<>> THEN <<>> ELSE <<TaggedErrors[1]>>)

\* mutant: the layer is left as soon as one error arrived (cancel on first error)
LayerBarrier_failFast ==
    /\ pc = "wait"
    /\ \/ \A w \in WorkersOfLayer(layerIdx) : wpc[w] = "done"
       \/ Len(errCh) > 0
    /\ Evaluate(TaggedErrors)

\* mutant: a failed layer removes the pods the run has created
LayerBarrier_rollback ==
    /\ pc = "wait"
    /\ \A w \in WorkersOfLayer(layerIdx) : wpc[w] = "done"
    /\ IF Len(errCh) = 0 THEN Evaluate(TaggedErrors)
       ELSE /\ retErrs' = TaggedErrors
            /\ Fail("LayerFailed")
            /\ errCh' = <<>>
            /\ submitted' = [w \in Workers |-> IF submitted[w] = "created" THEN "deleted"
                                                ELSE submitted[w]]
            /\ UNCHANGED <<smtVars, sideVars, inputVars, pciAddresses, envMutex, layerIdx,
                           wpc, wenv, wtodo, wbuf, wfailed, probes, rendered>>

\* lines 327-342: wg.Wait, close, collect with the layer tag, join or go on
LayerBarrier ==
    /\ pc = "wait"
    /\ \A w \in WorkersOfLayer(layerIdx) : wpc[w] = "done"
    /\ Evaluate(TaggedErrors)

(* ------------------------ the layer goroutine -------------------------- *)
\* errCh <- err (lines 307, 315, 322). The channel is drained only after
\* wg.Wait(), so a send that finds the buffer full leaves the goroutine parked
\* at the send statement; otherwise the goroutine goes on with the next step.
Report(w, step, next) ==
    /\ wfailed' = [wfailed EXCEPT ![w] = @ \cup {step}]
    /\ IF Len(errCh) < ErrChCap
       THEN /\ errCh' = Append(errCh, [w |-> w, step |-> step])
            /\ wpc' = [wpc EXCEPT ![w] = next]
       ELSE /\ errCh' = errCh
            /\ wpc' = [wpc EXCEPT ![w] = "send"]

\* containers whose JoinAndRemove is still to come (line 482: count # 0)
NonZero(m) == {c \in DOMAIN m : m[c] # 0}

\* returnEnvParamsForPod up to envMutex.Lock() (lines 452-480); its error is
\* sent (line 307) and the goroutine goes on with the render step
EnvStep(w, mutexFree) ==
    /\ Running /\ wpc[w] = "env"
    /\ UNCHANGED <<pc, result, smtVars, sideVars, inputVars, pciAddresses, layerIdx, retErrs,
                   wenv, wbuf, submitted, probes, rendered>>
    /\ LET r == fetchSpyreCardsFromPodAnnotations(podSpecs[TemplateOf(w)])
           failed == Report(w, "env", "render") /\ UNCHANGED <<envMutex, wtodo>>
       IN \/ failed                                   \* LoadPodTemplate fails
          \/ IF r.err THEN failed
             ELSE IF r.spyreCards = 0
             THEN /\ wpc' = [wpc EXCEPT ![w] = "render"]
                  /\ UNCHANGED <<envMutex, wtodo, wfailed, errCh>>
             ELSE /\ mutexFree
                  /\ envMutex' = w
                  /\ wtodo' = [wtodo EXCEPT ![w] = NonZero(r.spyreCardContainerMap)]
                  /\ wpc' = [wpc EXCEPT ![w] = "alloc"]
                  /\ UNCHANGED <<wfailed, errCh>>

\* mutant: the critical section is entered without envMutex.Lock()
GetEnv_noLock(w) == EnvStep(w, TRUE)

GetEnv(w) == EnvStep(w, envMutex = None)

\* one iteration of the loop of lines 481-485, up to the read of *pciAddresses
AllocRead(w) ==
    /\ Running /\ wpc[w] = "alloc"
    /\ \E c \in wtodo[w] :
        /\ wtodo' = [wtodo EXCEPT ![w] = @ \ {c}]
        /\ wbuf' = [wbuf EXCEPT ![w] = [container |-> c, slice |-> pciAddresses]]
        /\ wpc' = [wpc EXCEPT ![w] = "allocWrite"]
    /\ UNCHANGED <<pc, result, smtVars, sideVars, inputVars, pciAddresses, layerVars,
                   wenv, submitted, wfailed, probes, rendered>>

\* JoinAndRemove stores the shortened slice and the env entry is set (line 483),
\* envMutex.Unlock() follows the last iteration; JoinAndRemove has no error
\* result, so its failure ends the process
AllocWrite(w) ==
    /\ Running /\ wpc[w] = "allocWrite"
    /\ LET m == fetchSpyreCardsFromPodAnnotations(podSpecs[TemplateOf(w)]).spyreCardContainerMap
           c == wbuf[w].container
           r == JoinAndRemove(wbuf[w].slice, m[c])
       IN IF r.ok
          THEN /\ pciAddresses' = r.rest
               /\ wenv' = [wenv EXCEPT ![w][c] = r.joined]
               /\ wpc' = [wpc EXCEPT ![w] = IF wtodo[w] = {} THEN "render" ELSE "alloc"]
               /\ envMutex' = IF wtodo[w] = {} /\ envMutex = w THEN None ELSE envMutex
               /\ UNCHANGED <<pc, result>>
          ELSE /\ pc' = "panic" /\ result' = "Panic"
               /\ UNCHANGED <<pciAddresses, wenv, wpc, envMutex>>
    /\ wbuf' = [wbuf EXCEPT ![w] = NoBuf]
    /\ UNCHANGED <<smtVars, sideVars, inputVars, layerIdx, errCh, retErrs, wtodo, submitted, wfailed,
                   probes, rendered>>

\* lines 309-316: podTemplate.Execute; its error is sent (line 315) and the
\* goroutine goes on with the deployment
Render(w) ==
    /\ Running /\ wpc[w] = "render"
    /\ \/ wpc' = [wpc EXCEPT ![w] = "deploy"] /\ UNCHANGED <<wfailed, errCh>>
       \/ Report(w, "render", "deploy")
    /\ UNCHANGED <<pc, result, smtVars, sideVars, inputVars, pciAddresses, layerIdx, retErrs, envMutex,
                   wenv, wtodo, wbuf, submitted, probes>>
    /\ rendered' = [rendered EXCEPT ![w] = TemplateOf(w)]

\* outcomes of the readiness check of one container (lines 361-379): it is
\* skipped or returns nil, or FetchContainerStartPeriod or
\* WaitForContainerReadiness returns an error
ProbeOK == {"passed"}
ProbeFailed == {"failed"}
\* the checks run in order and stop at the first failure
ProbeRuns(n) ==
    {p \in UNION {[1..k -> ProbeOK \cup ProbeFailed] : k \in 0..n} :
        /\ \A k \in 1..(Len(p) - 1) : p[k] \in ProbeOK
        /\ (Len(p) < n => Len(p) > 0 /\ p[Len(p)] \in ProbeFailed)}

\* mutant: the error of a readiness check is not returned
Deploy_ignoreProbe(w) ==
    /\ Running /\ wpc[w] = "deploy"
    /\ UNCHANGED <<pc, result, smtVars, sideVars, inputVars, pciAddresses, layerIdx, retErrs, envMutex,
                   wenv, wtodo, wbuf, rendered>>
    /\ \/ /\ submitted' = [submitted EXCEPT ![w] = "failed"]
          /\ Report(w, "deploy", "done")
          /\ UNCHANGED probes
       \/ \E p \in ProbeRuns(Cardinality(ContainersOf[TemplateOf(w)])) :
          /\ submitted' = [submitted EXCEPT ![w] = "created"]
          /\ probes' = [probes EXCEPT ![w] = p]
          /\ wpc' = [wpc EXCEPT ![w] = "done"]
          /\ UNCHANGED <<wfailed, errCh>>

\* deployPodAndReadinessCheck (lines 347-389), the send of its error
\* (line 322) and the deferred wg.Done()
Deploy(w) ==
    /\ Running /\ wpc[w] = "deploy"
    /\ UNCHANGED <<pc, result, smtVars, sideVars, inputVars, pciAddresses, layerIdx, retErrs, envMutex,
                   wenv, wtodo, wbuf, rendered>>
    /\ \/ /\ submitted' = [submitted EXCEPT ![w] = "failed"]
          /\ Report(w, "deploy", "done")
          /\ UNCHANGED probes
       \/ \E p \in ProbeRuns(Cardinality(ContainersOf[TemplateOf(w)])) :
          /\ submitted' = [submitted EXCEPT ![w] = "created"]
          /\ probes' = [probes EXCEPT ![w] = p]
          /\ IF p # <<>> /\ p[Len(p)] \in ProbeFailed
             THEN Report(w, "deploy", "done")
             ELSE /\ wpc' = [wpc EXCEPT ![w] = "done"]
                  /\ UNCHANGED <<wfailed, errCh>>

WorkerStep(w) ==
    \/ GetEnv(w) \/ AllocRead(w) \/ AllocWrite(w) \/ Render(w) \/ Deploy(w)

Next ==
    \/ SetSMTLevel \/ FetchTemplateNames \/ LoadAllTemplates \/ LoadMetadata
    \/ VerifyPodTemplates \/ CalculateRequirements \/ FindFreeSpyreCards
    \/ ValidateRequirements \/ ConnectRuntime \/ SpawnLayer \/ LayerBarrier
    \/ \E w \in Workers : WorkerStep(w)

Spec == Init /\ [][Next]_vars

(* ================= WaitForContainerReadiness and its caller ============ *)
MaxTimeout == 3
\* time.Sleep(2 * time.Second)
SleepInterval == 2
\* the clock of the model stops here: one sleep past the latest deadline
MaxTime == MaxTimeout + SleepInterval + 1
\* readyAt of a container that never gets healthy
Never == MaxTime + 1

\* HealthStatus of src/unnamed/part_002 lines 68-74
Ready == "healthy"
Starting == "starting"
NotReady == "unhealthy"
\* containerStatus.State.Health == nil
NoHealth == "nil"

\* the frame of one readiness check
\*   pc           position: "startPeriod" (create.go 362), "inspect" (line 84),
\*                "test" (lines 89-102), "sleep" (line 105), "done"
\*   now          the wall clock
\*   timeout      the timeout parameter
\*   deadline     time.Now().Add(timeout) of line 80
\*   hasHealth    the container has a configured health check
\*   readyAt      the time from which the health status is Ready, for good
\*   healthStatus what the last inspection reported ("none" before the first)
\*   inspectedAt  the clock at the last inspection
\*   testedAt     the value time.Now() returned at line 100
\*   ret          what was returned ("none" while running)
\*   inspects     InspectContainer calls of WaitForContainerReadiness
\*   sleeps       time.Sleep calls
ProberEntries == {"startPeriod", "inspect"}
InitFrames ==
    {[pc |-> e, now |-> 0, timeout |-> t, deadline |-> t, hasHealth |-> h, readyAt |-> r,
      healthStatus |-> None, inspectedAt |-> 0, testedAt |-> 0, ret |-> None,
      inspects |-> 0, sleeps |-> 0, err |-> FALSE, seen |-> {}] :
        e \in ProberEntries, t \in 1..MaxTimeout, h \in BOOLEAN, r \in 0..Never}

ProberInit ==
    /\ InitRunE
    /\ hostSMT = 1 /\ smtSetOps = 0
    /\ smt = Idle /\ del = Idle /\ calc = Idle
    /\ wfr \in InitFrames

ProberFrame == UNCHANGED <<runVars, smtVars, smt, del, calc>>

\* create.go 361-377: a container without health check is skipped, otherwise
\* WaitForContainerReadiness is called with startPeriod plus the extra
\* timeout, and its deadline is set (part_002 line 80)
FetchContainerStartPeriod ==
    /\ wfr.pc = "startPeriod"
    /\ ProberFrame
    /\ \/ wfr' = [wfr EXCEPT !.pc = "done", !.ret = "StartPeriodFailed"]
       \/ /\ ~wfr.hasHealth
          /\ wfr' = [wfr EXCEPT !.pc = "done", !.ret = "skipped"]
       \/ /\ wfr.hasHealth
          /\ wfr' = [wfr EXCEPT !.pc = "inspect", !.deadline = wfr.now + wfr.timeout]

\* what the runtime reports for the container at the present time
StatusNow ==
    IF ~wfr.hasHealth THEN {NoHealth}
    ELSE IF wfr.now >= wfr.readyAt THEN {Ready}
    ELSE {Starting, NotReady}

\* mutant: an inspection error is taken as one more poll that was not ready
Inspect_retry ==
    /\ wfr.pc = "inspect"
    /\ ProberFrame
    /\ \/ wfr' = [wfr EXCEPT !.pc = "sleep", !.err = TRUE,
                             !.inspects = @ + 1, !.inspectedAt = wfr.now]
       \/ \E st \in StatusNow :
            wfr' = [wfr EXCEPT !.pc = "test", !.healthStatus = st, !.seen = @ \cup {st},
                               !.inspects = @ + 1, !.inspectedAt = wfr.now]

\* part_002 lines 84-87: runtime.InspectContainer; err is the local of line
\* 78, seen the statuses reported so far
Inspect ==
    /\ wfr.pc = "inspect"
    /\ ProberFrame
    /\ \/ wfr' = [wfr EXCEPT !.pc = "done", !.ret = "InspectFailed", !.err = TRUE,
                             !.inspects = @ + 1, !.inspectedAt = wfr.now]
       \/ \E st \in StatusNow :
            wfr' = [wfr EXCEPT !.pc = "test", !.healthStatus = st, !.seen = @ \cup {st},
                               !.inspects = @ + 1, !.inspectedAt = wfr.now]

\* mutant: the deadline counts as passed at the deadline itself
TestStatus_deadlineInclusive ==
    /\ wfr.pc = "test"
    /\ ProberFrame
    /\ IF wfr.healthStatus = NoHealth \/ wfr.healthStatus = Ready
       THEN wfr' = [wfr EXCEPT !.pc = "done", !.ret = "ok"]
       ELSE IF wfr.now >= wfr.deadline
       THEN wfr' = [wfr EXCEPT !.pc = "done", !.ret = "Timeout", !.testedAt = wfr.now]
       ELSE wfr' = [wfr EXCEPT !.pc = "sleep", !.testedAt = wfr.now]

\* mutant: a container without health check is polled like one that is starting
TestStatus_nilKeepsPolling ==
    /\ wfr.pc = "test"
    /\ ProberFrame
    /\ IF wfr.healthStatus = Ready
       THEN wfr' = [wfr EXCEPT !.pc = "done", !.ret = "ok"]
       ELSE IF wfr.now > wfr.deadline
       THEN wfr' = [wfr EXCEPT !.pc = "done", !.ret = "Timeout", !.testedAt = wfr.now]
       ELSE wfr' = [wfr EXCEPT !.pc = "sleep", !.testedAt = wfr.now]

\* mutant: the deadline test comes before the ready test
TestStatus_deadlineFirst ==
    /\ wfr.pc = "test"
    /\ ProberFrame
    /\ IF wfr.healthStatus = NoHealth
       THEN wfr' = [wfr EXCEPT !.pc = "done", !.ret = "ok"]
       ELSE IF wfr.now > wfr.deadline
       THEN wfr' = [wfr EXCEPT !.pc = "done", !.ret = "Timeout", !.testedAt = wfr.now]
       ELSE IF wfr.healthStatus = Ready
       THEN wfr' = [wfr EXCEPT !.pc = "done", !.ret = "ok"]
       ELSE wfr' = [wfr EXCEPT !.pc = "sleep", !.testedAt = wfr.now]

\* mutant: an unhealthy container fails the check at once
TestStatus_unhealthyFails ==
    /\ wfr.pc = "test"
    /\ ProberFrame
    /\ IF wfr.healthStatus = NoHealth \/ wfr.healthStatus = Ready
       THEN wfr' = [wfr EXCEPT !.pc = "done", !.ret = "ok"]
       ELSE IF wfr.healthStatus = NotReady
       THEN wfr' = [wfr EXCEPT !.pc = "done", !.ret = "Unhealthy", !.testedAt = wfr.now]
       ELSE IF wfr.now > wfr.deadline
       THEN wfr' = [wfr EXCEPT !.pc = "done", !.ret = "Timeout", !.testedAt = wfr.now]
       ELSE wfr' = [wfr EXCEPT !.pc = "sleep", !.testedAt = wfr.now]

\* mutant: the loop has no deadline test
TestStatus_noDeadline ==
    /\ wfr.pc = "test"
    /\ ProberFrame
    /\ IF wfr.healthStatus = NoHealth \/ wfr.healthStatus = Ready
       THEN wfr' = [wfr EXCEPT !.pc = "done", !.ret = "ok"]
       ELSE wfr' = [wfr EXCEPT !.pc = "sleep", !.testedAt = wfr.now]

\* part_002 lines 89-102: no health check, then ready, then the deadline
TestStatus ==
    /\ wfr.pc = "test"
    /\ ProberFrame
    /\ IF wfr.healthStatus = NoHealth
       THEN wfr' = [wfr EXCEPT !.pc = "done", !.ret = "ok"]
       ELSE IF wfr.healthStatus = Ready
       THEN wfr' = [wfr EXCEPT !.pc = "done", !.ret = "ok"]
       ELSE IF wfr.now > wfr.deadline
       THEN wfr' = [wfr EXCEPT !.pc = "done", !.ret = "Timeout", !.testedAt = wfr.now]
       ELSE wfr' = [wfr EXCEPT !.pc = "sleep", !.testedAt = wfr.now]

\* part_002 line 105: the goroutine sleeps for the interval at least
Sleep ==
    /\ wfr.pc = "sleep"
    /\ ProberFrame
    /\ \E t \in (wfr.now + SleepInterval)..MaxTime :
        wfr' = [wfr EXCEPT !.pc = "inspect", !.now = t, !.sleeps = @ + 1]

\* time passes between any two statements (InspectContainer is a call to
\* the runtime's service, time.Now() of line 100 is read after it returned);
\* time passing around the sleep is part of Sleep
Tick ==
    /\ wfr.pc \in {"inspect", "test"}
    /\ wfr.now < MaxTime
    /\ ProberFrame
    /\ wfr' = [wfr EXCEPT !.now = @ + 1]

ProberNext == FetchContainerStartPeriod \/ Inspect \/ TestStatus \/ Sleep \/ Tick

ProberSpec == ProberInit /\ [][ProberNext]_vars

\* the goroutine that runs WaitForContainerReadiness is scheduled: a
\* statement that can run does run, and time.Sleep returns (Sleep moves the
\* clock on by the interval at least); nothing is assumed of Tick
ProberFairSpec ==
    /\ ProberSpec
    /\ WF_vars(FetchContainerStartPeriod) /\ WF_vars(Inspect)
    /\ WF_vars(TestStatus) /\ WF_vars(Sleep)

(* ===================== setSMTLevel, step by step ======================= *)
\* invocations of setSMTLevel in succession
MaxCalls == 2
\* SMT levels of the host and of a metadata.yaml
SMTLevels == {1, 2, 4}
MetaLevels == {NoTarget} \cup {<<n>> : n \in SMTLevels}

\* the frame of an invocation of setSMTLevel
\*   pc               "query" (lines 157-166), "target" (169-185), "set"
\*                    (188-193), "verify" (196-213), "done"
\*   call             number of the invocation
\*   metaLevel        smtLevel of metadata.yaml, the same for every invocation
\*   currentSMTlevel  the local of that name (0 before the first query)
\*   targetSMTLevel   the local of that name
\*   ret              what the invocation returned ("none" while running)
\*   sets             ppc64_cpu --smt=N commands of this invocation
\*   queries          ppc64_cpu --smt commands of this invocation
\*   prevRet          what the invocation before this one returned
SMTFrame(m) ==
    [pc |-> "query", call |-> 1, metaLevel |-> m, currentSMTlevel |-> 0,
     targetSMTLevel |-> NoTarget, ret |-> None, sets |-> 0, queries |-> 0,
     prevRet |-> None]

SMTInit ==
    /\ InitRunE
    /\ hostSMT \in SMTLevels /\ smtSetOps = 0
    /\ wfr = Idle /\ del = Idle /\ calc = Idle
    /\ \E m \in MetaLevels : smt = SMTFrame(m)

SMTRunFrame == UNCHANGED <<runVars, wfr, del, calc>>

SMTReturn(e) == [smt EXCEPT !.pc = "done", !.ret = e]

\* lines 157-166: ppc64_cpu --smt and getSMTLevel of its output
QueryLevel ==
    /\ smt.pc = "query"
    /\ SMTRunFrame /\ UNCHANGED smtVars
    /\ \E query \in {"err", "bad", "ok"} :
        IF query # "ok"
        THEN smt' = [SMTReturn("SMTQueryFailed") EXCEPT !.queries = @ + 1]
        ELSE smt' = [smt EXCEPT !.pc = "target", !.currentSMTlevel = hostSMT,
                                !.queries = @ + 1]

\* mutant: the level is set without the test of line 181
FetchTarget_alwaysSet ==
    /\ smt.pc = "target"
    /\ SMTRunFrame /\ UNCHANGED smtVars
    /\ \/ smt' = SMTReturn("SMTTargetFailed")
       \/ IF smt.metaLevel = NoTarget
          THEN smt' = [SMTReturn("ok") EXCEPT !.targetSMTLevel = smt.metaLevel]
          ELSE smt' = [smt EXCEPT !.pc = "set", !.targetSMTLevel = smt.metaLevel]

\* mutant: without a declared target a default level of 2 is set
FetchTarget_defaultLevel ==
    /\ smt.pc = "target"
    /\ SMTRunFrame /\ UNCHANGED smtVars
    /\ \/ smt' = SMTReturn("SMTTargetFailed")
       \/ IF smt.metaLevel = <<smt.currentSMTlevel>>
          THEN smt' = [SMTReturn("ok") EXCEPT !.targetSMTLevel = smt.metaLevel]
          ELSE smt' = [smt EXCEPT !.pc = "set",
                          !.targetSMTLevel = IF smt.metaLevel = NoTarget
                                             THEN <<2>> ELSE smt.metaLevel]

\* lines 169-185: getTargetSMTLevel, nothing to do without a target or when
\* the level is the target already
FetchTarget ==
    /\ smt.pc = "target"
    /\ SMTRunFrame /\ UNCHANGED smtVars
    /\ \/ smt' = SMTReturn("SMTTargetFailed")
       \/ IF smt.metaLevel = NoTarget \/ smt.metaLevel = <<smt.currentSMTlevel>>
          THEN smt' = [SMTReturn("ok") EXCEPT !.targetSMTLevel = smt.metaLevel]
          ELSE smt' = [smt EXCEPT !.pc = "set", !.targetSMTLevel = smt.metaLevel]

\* lines 188-193: ppc64_cpu --smt=N; the command fails, or ends without
\* error having changed the level or not
SetLevel ==
    /\ smt.pc = "set"
    /\ SMTRunFrame
    /\ smtSetOps' = smtSetOps + 1
    /\ \E setOutcome \in {"err", "applied", "ignored"} :
        /\ hostSMT' = IF setOutcome = "applied" THEN smt.targetSMTLevel[1] ELSE hostSMT
        /\ IF setOutcome = "err"
           THEN smt' = [SMTReturn("SMTSetFailed") EXCEPT !.sets = @ + 1]
           ELSE smt' = [smt EXCEPT !.pc = "verify", !.sets = @ + 1]

\* mutant: a level that still differs is set again
VerifyLevel_retry ==
    /\ smt.pc = "verify"
    /\ SMTRunFrame /\ UNCHANGED smtVars
    /\ \E query \in {"err", "ok"} :
        IF query # "ok"
        THEN smt' = [SMTReturn("SMTVerifyQueryFailed") EXCEPT !.queries = @ + 1]
        ELSE IF hostSMT # smt.targetSMTLevel[1]
        THEN smt' = [smt EXCEPT !.pc = "set", !.currentSMTlevel = hostSMT, !.queries = @ + 1]
        ELSE smt' = [SMTReturn("ok") EXCEPT !.currentSMTlevel = hostSMT, !.queries = @ + 1]

\* lines 196-213: the level is queried again and compared with the target
VerifyLevel ==
    /\ smt.pc = "verify"
    /\ SMTRunFrame /\ UNCHANGED smtVars
    /\ \E query \in {"err", "bad", "ok"} :
        IF query # "ok"
        THEN smt' = [SMTReturn("SMTVerifyQueryFailed") EXCEPT !.queries = @ + 1]
        ELSE IF hostSMT # smt.targetSMTLevel[1]
        THEN smt' = [SMTReturn("SMTVerificationFailed") EXCEPT
                        !.currentSMTlevel = hostSMT, !.queries = @ + 1]
        ELSE smt' = [SMTReturn("ok") EXCEPT !.currentSMTlevel = hostSMT, !.queries = @ + 1]

\* setSMTLevel is invoked again, right after it returned
InvokeAgain ==
    /\ smt.pc = "done" /\ smt.call < MaxCalls
    /\ SMTRunFrame /\ UNCHANGED smtVars
    /\ smt' = [SMTFrame(smt.metaLevel) EXCEPT !.call = smt.call + 1, !.prevRet = smt.ret]

SMTNext == QueryLevel \/ FetchTarget \/ SetLevel \/ VerifyLevel \/ InvokeAgain

SMTSpec == SMTInit /\ [][SMTNext]_vars

(* ======================== 'application delete' ======================== *)
\* pods the runtime can list for the application
MaxPods == 3
PodNames == 1..MaxPods
\* ListPods results: pods in any order, each once
PodLists ==
    {l \in UNION {[1..n -> PodNames] : n \in 0..MaxPods} :
        \A i, j \in 1..Len(l) : i # j => l[i] # l[j]}

\* strings.ToLower and strings.TrimSpace on the characters of a response
ToLowerChar(ch) ==
    CASE ch = "Y" -> "y" [] ch = "E" -> "e" [] ch = "S" -> "s"
      [] ch = "N" -> "n" [] ch = "O" -> "o" [] OTHER -> ch
ToLower(str) == [k \in 1..Len(str) |-> ToLowerChar(str[k])]
IsSpace(ch) == ch \in {" ", "\n", "\t"}
RECURSIVE TrimLeft(_)
TrimLeft(str) ==
    IF str # <<>> /\ IsSpace(Head(str)) THEN TrimLeft(Tail(str)) ELSE str
RECURSIVE TrimRight(_)
TrimRight(str) ==
    IF str # <<>> /\ IsSpace(str[Len(str)]) THEN TrimRight(SubSeq(str, 1, Len(str) - 1))
    ELSE str
TrimSpace(str) == TrimRight(TrimLeft(str))

\* lines the user can type
Responses ==
    {<<"y", "\n">>, <<"Y", "E", "S", "\n">>, <<" ", "y", "e", "s", " ", "\n">>,
     <<"n", "\n">>, <<"N", "o", "\n">>, <<"\n">>, <<"x", "\n">>, <<"y", "e", "\n">>}

\* mutant: an empty response counts as a yes, and any text that begins
\* with y
ConfirmAction_defaultYes(line) ==
    LET response == TrimSpace(ToLower(line)) IN
    IF response = <<"n">> \/ response = <<"n", "o">> THEN [err |-> FALSE, ok |-> FALSE]
    ELSE IF response # <<>> /\ response[1] # "y"
    THEN [err |-> TRUE, ok |-> FALSE]
    ELSE [err |-> FALSE, ok |-> TRUE]

\* utils.ConfirmAction on the line read: [err, ok]
ConfirmAction(line) ==
    LET response == TrimSpace(ToLower(line)) IN
    IF response = <<"n">> \/ response = <<"n", "o">> THEN [err |-> FALSE, ok |-> FALSE]
    ELSE IF response # <<"y">> /\ response # <<"y", "e", "s">>
    THEN [err |-> TRUE, ok |-> FALSE]
    ELSE [err |-> FALSE, ok |-> TRUE]

\* the frame of deleteCmd.RunE
\*   pc         "connect" (lines 26-29), "list" (31-48), "confirm" (56-66),
\*              "loop" (72-79), "aggregate" (82-86), "done"
\*   pods       the pods listed
\*   present    the pods the runtime still holds
\*   i          index of the pod the loop is at
\*   errors     the slice of that name: names of the pods whose delete failed
\*   attempted  the pods DeletePod was called for, in order
\*   failed     the pods whose DeletePod returned an error
\*   confirmed  ConfirmAction returned true
\*   ret        what RunE returned ("none" while running)
DeleteInit ==
    /\ InitRunE
    /\ hostSMT = 1 /\ smtSetOps = 0
    /\ wfr = Idle /\ smt = Idle /\ calc = Idle
    /\ del = [pc |-> "connect", pods |-> <<>>, present |-> {}, i |-> 1, errors |-> <<>>,
              attempted |-> <<>>, failed |-> {}, confirmed |-> FALSE, ret |-> None,
              line |-> <<>>]

DeleteFrame == UNCHANGED <<runVars, smtVars, wfr, smt, calc>>

DeleteReturn(e) == [del EXCEPT !.pc = "done", !.ret = e]

\* lines 26-29: podman.NewPodmanClient
DeleteConnect ==
    /\ del.pc = "connect"
    /\ DeleteFrame
    /\ \/ del' = DeleteReturn("ConnectFailed")
       \/ del' = [del EXCEPT !.pc = "list"]

\* lines 31-54: the pods with the application's label; none is a success
ListPods ==
    /\ del.pc = "list"
    /\ DeleteFrame
    /\ \/ del' = DeleteReturn("ListPodsFailed")
       \/ \E l \in PodLists :
            IF Len(l) = 0
            THEN del' = DeleteReturn("ok")
            ELSE del' = [del EXCEPT !.pc = "confirm", !.pods = l,
                                    !.present = {l[k] : k \in 1..Len(l)}]

\* lines 56-68: the confirmation
ConfirmDelete ==
    /\ del.pc = "confirm"
    /\ DeleteFrame
    /\ \/ del' = DeleteReturn("InputFailed")             \* readUserInput fails
       \/ \E line \in Responses :
            LET r == ConfirmAction(line) IN
            IF r.err THEN del' = [DeleteReturn("InputFailed") EXCEPT !.line = line]
            ELSE IF ~r.ok THEN del' = [DeleteReturn("ok") EXCEPT !.line = line]
            ELSE del' = [del EXCEPT !.pc = "loop", !.confirmed = TRUE, !.line = line]

\* mutant: the first delete that fails ends the command
DeletePod_stopAtFirst ==
    /\ del.pc = "loop"
    /\ DeleteFrame
    /\ LET pod == del.pods[del.i] IN
       \/ del' = [DeleteReturn("RemoveFailed") EXCEPT
                     !.errors = Append(@, pod), !.attempted = Append(@, pod),
                     !.failed = @ \cup {pod}]
       \/ del' = [del EXCEPT !.i = @ + 1, !.attempted = Append(@, pod),
                             !.present = @ \ {pod},
                             !.pc = IF del.i = Len(del.pods) THEN "aggregate" ELSE "loop"]

\* lines 72-79: one iteration of the loop, DeletePod for the pod at i
DeletePod ==
    /\ del.pc = "loop"
    /\ DeleteFrame
    /\ LET pod == del.pods[del.i]
           next == IF del.i = Len(del.pods) THEN "aggregate" ELSE "loop"
       IN \/ del' = [del EXCEPT !.i = @ + 1, !.attempted = Append(@, pod),
                                !.errors = Append(@, pod), !.failed = @ \cup {pod},
                                !.pc = next]
          \/ del' = [del EXCEPT !.i = @ + 1, !.attempted = Append(@, pod),
                                !.present = @ \ {pod}, !.pc = next]

\* lines 81-86: one error naming the pods of errors, or nil
AggregateErrors ==
    /\ del.pc = "aggregate"
    /\ DeleteFrame
    /\ del' = DeleteReturn(IF Len(del.errors) > 0 THEN "RemoveFailed" ELSE "ok")

DeleteNext == DeleteConnect \/ ListPods \/ ConfirmDelete \/ DeletePod \/ AggregateErrors

DeleteSpec == DeleteInit /\ [][DeleteNext]_vars

(* ============ calculateReqSpyreCards, one map entry at a time =========== *)
\* most annotations a pod template carries
MaxKeys == 2

\* annotation keys: a card count for c1 and for c2, and one other key
CalcKeys == {<<SpyreCountKey, c>> : c \in ContainerNames} \cup {<<OtherKey, "c1">>}
CalcValues(k) == IF k[1] = SpyreCountKey THEN AnnotationValues ELSE {<<"1">>, <<"x">>}
CalcAnnotationSets ==
    UNION {{f \in [K -> UNION {CalcValues(k) : k \in K}] : \A k \in K : f[k] \in CalcValues(k)}
           : K \in {S \in SUBSET CalcKeys : Cardinality(S) <= MaxKeys}}
CalcFileNames == {<<>>, <<"a">>, <<"a", "b">>}

EmptyMap == << >>
NoFetch ==
    [spyreCards |-> 0, spyreCardContainerMap |-> EmptyMap, err |-> FALSE, of |-> None,
     skipped |-> {}]

CalcInit ==
    /\ InitRunE
    /\ hostSMT = 1 /\ smtSetOps = 0
    /\ wfr = Idle /\ smt = Idle /\ del = Idle
    /\ \E names \in CalcFileNames :
       \E specs \in [{names[k] : k \in 1..Len(names)} -> CalcAnnotationSets] :
         calc = [pc |-> "nextTemplate", podTemplateFileNames |-> names, annotations |-> specs,
                 i |-> 1, keys |-> {}, spyreCards |-> 0, spyreCardContainerMap |-> EmptyMap,
                 totalReqSpyreCounts |-> 0, ret |-> None, fetched |-> NoFetch,
                 skipped |-> {}]

CalcFrame == UNCHANGED <<runVars, smtVars, wfr, smt, del>>

\* spyreCardContainerMap[containerName] = valInt
MapSet(m, name, val) == [n \in DOMAIN m \cup {name} |-> IF n = name THEN val ELSE m[n]]

\* lines 402-410 and 421: the loop over the file names; LoadPodTemplate fails
\* or the scan of the template's annotations starts (lines 425-427)
NextTemplate ==
    /\ calc.pc = "nextTemplate"
    /\ CalcFrame
    /\ IF calc.i > Len(calc.podTemplateFileNames)
       THEN calc' = [calc EXCEPT !.pc = "done", !.ret = "ok"]
       ELSE \/ calc' = [calc EXCEPT !.pc = "done", !.ret = "LoadPodTemplateFailed"]
            \/ calc' = [calc EXCEPT !.pc = "nextKey",
                           !.keys = DOMAIN calc.annotations[calc.podTemplateFileNames[calc.i]],
                           !.spyreCards = 0, !.spyreCardContainerMap = EmptyMap,
                           !.skipped = {}]

\* mutant: every annotation counts, whatever its key
NextKey_everyKeyCounts ==
    /\ calc.pc = "nextKey" /\ calc.keys # {}
    /\ CalcFrame
    /\ \E k \in calc.keys :
        LET t == calc.podTemplateFileNames[calc.i]
            val == Atoi(calc.annotations[t][k])
        IN IF ~val.ok
           THEN calc' = [calc EXCEPT !.pc = "done", !.ret = "InvalidAnnotationValue",
                            !.keys = @ \ {k},
                            !.fetched = [spyreCards |-> 0,
                                         spyreCardContainerMap |-> calc.spyreCardContainerMap,
                                         err |-> TRUE, of |-> t, skipped |-> calc.skipped]]
           ELSE calc' = [calc EXCEPT !.keys = @ \ {k},
                            !.spyreCardContainerMap = MapSet(@, k[2], val.val),
                            !.spyreCards = @ + val.val]

\* lines 437-447 and 414-416: one iteration of the range over the
\* annotations, in the order the map yields them; a value that is no integer
\* ends both functions
NextKey ==
    /\ calc.pc = "nextKey" /\ calc.keys # {}
    /\ CalcFrame
    /\ \E k \in calc.keys :
        LET t == calc.podTemplateFileNames[calc.i]
            m == isSpyreCardAnnotation(k)
            val == Atoi(calc.annotations[t][k])
        IN IF ~m.ok
           THEN calc' = [calc EXCEPT !.keys = @ \ {k}, !.skipped = @ \cup {k}]
           ELSE IF ~val.ok
           THEN calc' = [calc EXCEPT !.pc = "done", !.ret = "InvalidAnnotationValue",
                            !.keys = @ \ {k},
                            !.fetched = [spyreCards |-> 0,
                                         spyreCardContainerMap |-> calc.spyreCardContainerMap,
                                         err |-> TRUE, of |-> t, skipped |-> calc.skipped]]
           ELSE calc' = [calc EXCEPT !.keys = @ \ {k},
                            !.spyreCardContainerMap = MapSet(@, m.name, val.val),
                            !.spyreCards = @ + val.val]

\* mutant: the total of a template replaces the running total
FetchReturn_lastOnly ==
    /\ calc.pc = "nextKey" /\ calc.keys = {}
    /\ CalcFrame
    /\ calc' = [calc EXCEPT !.pc = "nextTemplate", !.i = @ + 1,
                   !.totalReqSpyreCounts = calc.spyreCards,
                   !.fetched = [spyreCards |-> calc.spyreCards,
                                spyreCardContainerMap |-> calc.spyreCardContainerMap,
                                err |-> FALSE, of |-> calc.podTemplateFileNames[calc.i],
                                skipped |-> calc.skipped]]

\* lines 449 and 418: the scan ended, its total is added
FetchReturn ==
    /\ calc.pc = "nextKey" /\ calc.keys = {}
    /\ CalcFrame
    /\ calc' = [calc EXCEPT !.pc = "nextTemplate", !.i = @ + 1,
                   !.totalReqSpyreCounts = @ + calc.spyreCards,
                   !.fetched = [spyreCards |-> calc.spyreCards,
                                spyreCardContainerMap |-> calc.spyreCardContainerMap,
                                err |-> FALSE, of |-> calc.podTemplateFileNames[calc.i],
                                skipped |-> calc.skipped]]

CalcNext == NextTemplate \/ NextKey \/ FetchReturn

CalcSpec == CalcInit /\ [][CalcNext]_vars

(* ============================ properties =============================== *)
\* addresses a goroutine put into the env of a container
Assigned(w, c) == {wenv[w][c][k] : k \in 1..Len(wenv[w][c])}
\* nothing of the deployment has happened: no goroutine, no address, no pod
NothingDeployed ==
    /\ \A w \in Workers : /\ wpc[w] = None /\ submitted[w] = None
                          /\ wenv[w] = NoEnv /\ probes[w] = <<>>
    /\ actualSpyreCardsCount >= 0 => pciAddresses = [k \in 1..actualSpyreCardsCount |-> k]
    /\ actualSpyreCardsCount < 0 => pciAddresses = <<>>

\* C1: once the free cards are discovered and the summed demand exceeds
\* them, the run can only end with the insufficient-resources error, and no
\* address leaves the pool and no pod is created.
InsufficientCardsAbort ==
    (actualSpyreCardsCount >= 0 /\ reqSpyreCardsCount > actualSpyreCardsCount) =>
        /\ pc \in {"validate", "done"}
        /\ pc = "done" => result = "InsufficientResources"
        /\ NothingDeployed

InsufficientCardsAbortWitness ==
    /\ pc = "done" /\ result = "InsufficientResources"
    /\ reqSpyreCardsCount > actualSpyreCardsCount
    /\ actualSpyreCardsCount > 0

\* the goroutine has been spawned
Spawned(w) == wpc[w] # None
\* the goroutine left a trace of any of its steps
Acted(w) == Spawned(w) \/ submitted[w] # None \/ wenv[w] # NoEnv \/ probes[w] # <<>>
             \/ wfailed[w] # {}

\* C2: a goroutine of a later layer acts only when every goroutine of every
\* earlier layer has finished.
LayersAreSequential ==
    \A w \in Workers : Acted(w) =>
        \A i \in 1..(w[1] - 1) : \A v \in WorkersOfLayer(i) : wpc[v] = "done"

LayersAreSequentialWitness ==
    \E w \in Workers : /\ w[1] = 2 /\ wpc[w] = "deploy"
                       /\ \E v \in WorkersOfLayer(1) : wfailed[v] = {} /\ submitted[v] = "created"

\* the goroutine's error reached the channel or the returned error
Reported(w, step) ==
    \/ \E k \in 1..Len(errCh) : errCh[k].w = w /\ errCh[k].step = step /\ layerIdx = w[1]
    \/ \E k \in 1..Len(retErrs) : retErrs[k].w = w /\ retErrs[k].step = step
                                   /\ retErrs[k].layer = w[1]
ReportedAny(w) == \E step \in {"env", "render", "deploy"} : Reported(w, step)

AllFailuresReturned ==
    (pc = "done" /\ result = "LayerFailed") =>
        /\ \A w \in WorkersOfLayer(layerIdx) : \A step \in wfailed[w] :
              \E k \in 1..Len(retErrs) :
                 retErrs[k] = [layer |-> w[1], w |-> w, step |-> step]
        /\ \A k \in 1..Len(retErrs) :
              /\ retErrs[k].layer = retErrs[k].w[1]
              /\ retErrs[k].step \in wfailed[retErrs[k].w]

AllFailuresReturnedWitness ==
    /\ pc = "done" /\ result = "LayerFailed"
    /\ \E w, v \in WorkersOfLayer(layerIdx) : w # v /\ wfailed[w] # {} /\ wfailed[v] # {}
    /\ Len(retErrs) = 2

\* C5: every address is in the env of at most one container, once, and an
\* address given to a container is no longer in the pool.
Slots == Workers \X ContainerNames
Holders(a) == {s \in Slots : \E k \in 1..Len(wenv[s[1]][s[2]]) : wenv[s[1]][s[2]][k] = a}
NoAddressShared ==
    \A s \in Slots : wenv[s[1]][s[2]] # <<>> =>
        \A k \in 1..Len(wenv[s[1]][s[2]]) :
            LET a == wenv[s[1]][s[2]][k] IN
            /\ Holders(a) = {s}
            /\ \A j \in 1..Len(wenv[s[1]][s[2]]) : j # k => wenv[s[1]][s[2]][j] # a
            /\ \A m \in 1..Len(pciAddresses) : pciAddresses[m] # a

NoAddressSharedWitness ==
    \E w, v \in Workers : /\ w # v /\ w[1] = v[1]
                          /\ \E c \in ContainerNames : wenv[w][c] # <<>>
                          /\ \E c \in ContainerNames : wenv[v][c] # <<>>
                          /\ wpc[w] = "done" /\ wpc[v] = "done"


\* count annotation of container c of the template goroutine w deploys
CountOf(w) == fetchSpyreCardsFromPodAnnotations(podSpecs[TemplateOf(w)]).spyreCardContainerMap
AllSpawned == UNION {WorkersOfLayer(i) : i \in 1..Len(podTemplateExecutions)}
AssignedTotal == SumOver([s \in Slots |-> Len(wenv[s[1]][s[2]])], Slots)

\* C6: in a successful run the addresses handed out add up to the demand of
\* the pre-flight calculation, and every container whose count annotation is
\* not zero holds exactly that many addresses.
SuccessAssignsDemand ==
    (pc = "done" /\ result = "ok") =>
        /\ AssignedTotal = reqSpyreCardsCount
        /\ \A w \in AllSpawned : \A c \in DOMAIN CountOf(w) :
              CountOf(w)[c] # 0 => Len(wenv[w][c]) = CountOf(w)[c]

\* number of references to template t in all layers
References(t) ==
    LET flat == FlattenArray(podTemplateExecutions)
    IN Cardinality({k \in 1..Len(flat) : flat[k] = t})
\* the references are exactly the loaded templates, each once
ReferencesMatchLoaded ==
    \A t \in RefNames : References(t) = IF t \in tmpls THEN 1 ELSE 0
\* RunE has gone through verifyPodTemplateExists (line 88)
VerificationRan ==
    \/ pc \in {"calcReq", "findFree", "validate", "connect", "spawn", "wait", "panic"}
    \/ /\ pc = "done"
       /\ result \notin {"SMTQueryFailed", "SMTTargetFailed", "SMTSetFailed",
                         "SMTVerifyQueryFailed", "SMTVerificationFailed",
                         "ListTemplatesFailed", "ParseTemplatesFailed", "ReadMetadataFailed"}

\* C7: when the references of the layers are not exactly the loaded
\* templates, verification fails and nothing is allocated or created.
MismatchFailsVerification ==
    (VerificationRan /\ ~ReferencesMatchLoaded) =>
        /\ pc = "done" /\ result = "VerifyPodTemplateFailed"
        /\ NothingDeployed

\* C8: while executePodTemplates waits for a layer, something can always
\* still happen: a goroutine can take a step or the barrier can be passed.
FanInNeverStuck == pc = "wait" => ENABLED Next

\* C9: a goroutine whose resource computation or render step failed submits
\* no manifest, and no goroutine reports more than one failure.
FailureIsTerminal ==
    \A w \in Workers :
        /\ (wfailed[w] \cap {"env", "render"} # {}) => submitted[w] = None
        /\ Cardinality(wfailed[w]) <= 1

\* the result of layer i has been evaluated
LayerEvaluated(i) ==
    /\ i \in 1..Len(podTemplateExecutions)
    /\ \/ layerIdx > i
       \/ layerIdx = i /\ pc = "done" /\ result = "LayerFailed"

\* C10: when the result of a layer is evaluated, every goroutine of the layer
\* has run to its end: its manifest was submitted, and a goroutine without a
\* failure of its own has its pod created and all its containers checked.
SiblingsRunToCompletion ==
    \A w \in Workers : (w \in AllSpawned /\ LayerEvaluated(w[1])) =>
        /\ wpc[w] = "done"
        /\ submitted[w] \in {"created", "failed"}
        /\ wfailed[w] = {} =>
              /\ submitted[w] = "created"
              /\ Len(probes[w]) = Cardinality(ContainersOf[TemplateOf(w)])
              /\ \A k \in 1..Len(probes[w]) : probes[w][k] \in ProbeOK

SiblingsRunToCompletionWitness ==
    /\ pc = "done" /\ result = "LayerFailed"
    /\ \E w, v \in WorkersOfLayer(layerIdx) :
          /\ w # v /\ wfailed[w] # {} /\ wfailed[v] = {}
          /\ submitted[v] = "created" /\ Len(probes[v]) > 0

\* C11: no rollback. A pod the run has created stays created in every later
\* step of the run, also when a layer fails: the pods of earlier layers and of
\* the successful goroutines of the failing layer remain.
NoRollback ==
    [][\A w \in Workers : submitted[w] = "created" => submitted'[w] = "created"]_vars

NoRollbackWitness ==
    /\ pc = "done" /\ result = "LayerFailed"
    /\ \E w \in WorkersOfLayer(layerIdx) : wfailed[w] # {}
    /\ \E v \in Workers : v[1] < layerIdx /\ submitted[v] = "created"

\* the errors setSMTLevel returns
SMTFailures == {"SMTQueryFailed", "SMTTargetFailed", "SMTSetFailed",
                "SMTVerifyQueryFailed", "SMTVerificationFailed"}

\* C16: the SMT step is the first step of the run and is never taken again;
\* while it has not completed, and after it has failed, no address is
\* allocated and no pod is created; it issues at most one set operation.
SMTOnceBeforeDeployment ==
    /\ []((pc = "setSMT" => NothingDeployed /\ smtSetOps = 0)
          /\ (result \in SMTFailures => pc = "done" /\ NothingDeployed)
          /\ smtSetOps <= 1)
    /\ [][pc' # "setSMT"]_vars

SMTOnceBeforeDeploymentWitness ==
    /\ smtSetOps = 1 /\ result = "ok"
    /\ \E w \in Workers : submitted[w] = "created" /\ wenv[w] # NoEnv

\* the errors of the configuration: a wrong template name and a malformed
\* metadata.yaml surface in getTargetSMTLevel (lines 216-237), a mismatch
\* of layers and templates at line 88, an annotation value at line 95
ConfigErrors == {"SMTTargetFailed", "VerifyPodTemplateFailed", "InvalidAnnotationValue"}

\* C17: a run that ends with a configuration error has issued no SMT set
\* operation, allocated no address and created no pod.
ConfigErrorsBeforeSideEffects ==
    (pc = "done" /\ result \in ConfigErrors) => smtSetOps = 0 /\ NothingDeployed

\* the value is the decimal form of an integer that is not negative
NonNegativeInteger(v) == Atoi(v).ok /\ Atoi(v).val >= 0

\* C18: for the annotations of every pod template, a matching annotation
\* whose value is not a non-negative integer makes
\* fetchSpyreCardsFromPodAnnotations fail, and a result without error holds
\* no negative count and no negative total.
NegativeCountsRejected ==
    \A t \in DOMAIN podSpecs :
        LET r == fetchSpyreCardsFromPodAnnotations(podSpecs[t]) IN
        /\ (\E k \in DOMAIN podSpecs[t] :
                isSpyreCardAnnotation(k).ok /\ ~NonNegativeInteger(podSpecs[t][k])) => r.err
        /\ ~r.err => /\ r.spyreCards >= 0
                      /\ \A c \in DOMAIN r.spyreCardContainerMap :
                            r.spyreCardContainerMap[c] >= 0

\* the readiness check has returned
ProbeReturned == wfr.pc = "done"
\* errors of the runtime's inspection, surfaced as they are
InspectionErrors == {"InspectFailed", "StartPeriodFailed"}

\* C12: the timeout error is returned only in an iteration whose deadline
\* test read a time strictly after the deadline; a container with a health
\* check that never gets ready is never reported ready.
TimeoutOnlyAfterDeadline ==
    /\ wfr.ret = "Timeout" => /\ wfr.testedAt > wfr.deadline
                              /\ wfr.deadline = wfr.timeout
                              /\ wfr.now >= wfr.testedAt
    /\ (ProbeReturned /\ wfr.hasHealth /\ wfr.readyAt = Never) =>
            wfr.ret \in {"Timeout"} \cup InspectionErrors

TimeoutOnlyAfterDeadlineWitness ==
    /\ wfr.ret = "Timeout" /\ wfr.readyAt = Never
    /\ wfr.sleeps >= 1 /\ wfr.inspectedAt <= wfr.deadline

\* C13: for a container without health check no sleep is taken and the
\* prober inspects at most once; once the inspection has reported that there
\* is no health check the result is success (the caller skips the check
\* altogether).
NoHealthCheckImmediate ==
    ~wfr.hasHealth =>
        /\ wfr.sleeps = 0 /\ wfr.pc # "sleep"
        /\ wfr.inspects <= 1
        /\ wfr.ret \in {None, "ok", "skipped"} \cup InspectionErrors
        /\ (ProbeReturned /\ wfr.healthStatus = NoHealth) => wfr.ret = "ok"

NoHealthCheckImmediateWitness ==
    /\ ~wfr.hasHealth /\ wfr.ret = "ok"
    /\ wfr.inspects = 1 /\ wfr.healthStatus = NoHealth

\* C14 as stated: a container that gets ready before the timeout and stays
\* ready is reported ready (or an inspection error is surfaced).
ReadyBeforeTimeoutSucceeds ==
    (ProbeReturned /\ wfr.hasHealth /\ wfr.readyAt < wfr.timeout) =>
        wfr.ret \in {"ok"} \cup InspectionErrors

\* C14 amended: an inspection that reports ready ends the check with success,
\* also when it is taken after the deadline; for a container that gets ready
\* before the timeout the timeout error is returned only when the last
\* inspection was taken before the container got ready and the deadline
\* test that followed it read a time after the deadline.
ReadyObservedSucceeds ==
    /\ wfr.healthStatus = Ready =>
            /\ wfr.pc \in {"test", "done"}
            /\ ProbeReturned => wfr.ret = "ok"
    /\ wfr.ret = "Timeout" =>
            /\ wfr.healthStatus \in {Starting, NotReady}
            /\ wfr.inspectedAt < wfr.readyAt
            /\ wfr.testedAt > wfr.deadline

ReadyObservedSucceedsWitness ==
    /\ wfr.ret = "ok" /\ wfr.healthStatus = Ready
    /\ wfr.readyAt > 0 /\ wfr.readyAt < wfr.timeout
    /\ wfr.inspectedAt > wfr.deadline
    /\ wfr.sleeps = 1

\* C15: an invocation of setSMTLevel that follows a successful one, with the
\* same target, issues no set operation and returns success; it returns an
\* error only when the host's query or the read of the metadata itself fails.
SecondInvocationNoOp ==
    (smt.call >= 2 /\ smt.prevRet = "ok") =>
        /\ smt.sets = 0
        /\ smt.pc \in {"query", "target", "done"}
        /\ smt.ret \in {None, "ok", "SMTQueryFailed", "SMTTargetFailed"}
        /\ smt.metaLevel # NoTarget => hostSMT = smt.metaLevel[1]

SecondInvocationNoOpWitness ==
    /\ smt.call = 2 /\ smt.prevRet = "ok" /\ smt.ret = "ok"
    /\ smtSetOps = 1 /\ smt.queries = 1

\* C20: an invocation that finds a level other than the target issues one
\* set operation and, when that succeeded, one further query; a level that
\* still differs ends the invocation with the verification error, and no
\* invocation issues a second set operation.
OneSetOneRequery ==
    /\ smt.sets <= 1 /\ smt.queries <= 2
    /\ smt.pc = "set" => /\ smt.sets = 0 /\ smt.queries = 1
                         /\ smt.currentSMTlevel # smt.targetSMTLevel[1]
    /\ smt.pc = "verify" => smt.sets = 1 /\ smt.queries = 1
    /\ smt.ret = "SMTSetFailed" => smt.sets = 1 /\ smt.queries = 1
    /\ smt.ret \in {"SMTVerificationFailed", "SMTVerifyQueryFailed"} =>
            smt.sets = 1 /\ smt.queries = 2
    /\ smt.ret = "SMTVerificationFailed" =>
            /\ smt.pc = "done"
            /\ smt.currentSMTlevel # smt.targetSMTLevel[1]
            /\ hostSMT = smt.currentSMTlevel
    /\ (smt.ret = "ok" /\ smt.sets = 1) =>
            smt.queries = 2 /\ hostSMT = smt.targetSMTLevel[1]

OneSetOneRequeryWitness ==
    /\ smt.ret = "SMTVerificationFailed"
    /\ smt.sets = 1 /\ smt.queries = 2 /\ smt.call = 1

\* the elements of a sequence
Range(q) == {q[k] : k \in 1..Len(q)}

\* C19: once the user has confirmed, the command ends only after a delete
\* was attempted for every listed pod, in order, whatever the earlier
\* deletes returned; the error names exactly the pods whose delete failed,
\* each once, and the command succeeds exactly when none failed.
DeleteAggregatesFailures ==
    del.confirmed =>
        /\ del.attempted = SubSeq(del.pods, 1, del.i - 1)
        /\ Range(del.errors) = del.failed
        /\ Len(del.errors) = Cardinality(del.failed)
        /\ del.present = Range(del.pods) \ (Range(del.attempted) \ del.failed)
        /\ del.pc = "done" =>
              /\ del.attempted = del.pods
              /\ del.ret = "ok" <=> del.failed = {}
              /\ del.ret = "RemoveFailed" <=> del.failed # {}

DeleteAggregatesFailuresWitness ==
    /\ del.pc = "done" /\ del.confirmed
    /\ Len(del.pods) = 3
    /\ del.failed = {del.pods[1]}
    /\ del.ret = "RemoveFailed"
    /\ del.present = del.failed

\* the target of the metadata is unset, or it is the level the query found
NothingToSet == smt.metaLevel = NoTarget \/ smt.metaLevel = <<smt.currentSMTlevel>>

\* C21: once the level is queried and the target read, a call of setSMTLevel
\* whose metadata declares no target, or whose target is the current level,
\* returns success at once: it issues no set operation in that step or in
\* any other of the call, and the host keeps the level that was queried.
NoOpWhenNothingToSet ==
    /\ [][(smt.pc = "target" /\ NothingToSet /\ smt'.ret # "SMTTargetFailed")
            => /\ smt'.pc = "done" /\ smt'.ret = "ok"
               /\ smt'.sets = 0 /\ smtSetOps' = smtSetOps
               /\ hostSMT' = hostSMT /\ hostSMT' = smt.currentSMTlevel]_vars
    /\ []((smt.pc \in {"set", "verify"} \/ smt.sets > 0) => smt.metaLevel # NoTarget)

NoOpWhenNothingToSetWitness ==
    /\ smt.pc = "done" /\ smt.ret = "ok" /\ smt.call = 1
    /\ smt.metaLevel = <<smt.currentSMTlevel>>
    /\ smt.sets = 0 /\ smtSetOps = 0 /\ hostSMT = smt.currentSMTlevel

\* C22: a run of 'application create' that aborts with insufficient
\* resources has issued no set operation and left the host SMT level as it
\* found it.
NoSMTChangeBeforeValidation ==
    (pc = "done" /\ result = "InsufficientResources") => (smtSetOps = 0 /\ hostSMT = 1)

\* C23: when InspectContainer returns an error, at the first poll or at a
\* later one, the prober has returned the inspection failure at that very
\* poll: every earlier poll was followed by one sleep, and the failing one by
\* none.
InspectErrorReturnsAtOnce ==
    wfr.err => /\ wfr.pc = "done" /\ wfr.ret = "InspectFailed"
               /\ wfr.inspects = wfr.sleeps + 1

InspectErrorReturnsAtOnceWitness ==
    wfr.err /\ wfr.ret = "InspectFailed" /\ wfr.inspects >= 2 /\ NotReady \in wfr.seen

\* the outcome the loop gives a poll whose status is neither ready nor absent
KeepsPolling(f, g) ==
    IF f.now > f.deadline
    THEN g.pc = "done" /\ g.ret = "Timeout"
    ELSE g.pc = "sleep" /\ g.ret = None

\* C24: an unhealthy status is handled as starting is: the test of a poll
\* that reported unhealthy (or starting) goes to sleep up to the deadline and
\* times out past it, so a prober that saw unhealthy fails with the timeout
\* only past the deadline, and succeeds when a later poll reports healthy.
UnhealthyLikeStarting ==
    /\ [][(wfr.pc = "test" /\ wfr'.pc # "test" /\ wfr.healthStatus \in {NotReady, Starting})
            => KeepsPolling(wfr, wfr')]_vars
    /\ []((NotReady \in wfr.seen /\ ProbeReturned) =>
            /\ wfr.ret \in {"ok", "Timeout", "InspectFailed"}
            /\ wfr.ret = "Timeout" => wfr.testedAt > wfr.deadline
            /\ (wfr.healthStatus = Ready /\ ~wfr.err) => wfr.ret = "ok")

UnhealthyLikeStartingWitness ==
    /\ ProbeReturned /\ wfr.ret = "ok" /\ wfr.healthStatus = Ready
    /\ NotReady \in wfr.seen /\ wfr.sleeps >= 1

\* C25: under a scheduler that runs the goroutine, WaitForContainerReadiness
\* returns (success, the inspection failure or the timeout); it polls again
\* only when the poll before was made at or before the deadline, so the
\* number of polls is bounded by the deadline and the sleep interval.
ProberTerminates ==
    /\ <>(ProbeReturned /\ wfr.ret \in {"ok", "skipped", "Timeout"} \cup InspectionErrors)
    /\ [][(wfr'.inspects > wfr.inspects /\ wfr.inspects > 0)
            => wfr.inspectedAt <= wfr.deadline]_vars
    /\ [](wfr.inspects <= (wfr.deadline \div SleepInterval) + 2)

ProberTerminatesWitness ==
    /\ ProbeReturned /\ wfr.ret = "Timeout" /\ wfr.inspects >= 2
    /\ wfr.inspectedAt > wfr.deadline

\* the worker ended without sending an error
ReportsSuccess(w) == wpc[w] = "done" /\ wfailed[w] = {}

\* every container of the creation report was checked and passed (it has
\* no health check, or the prober returned nil)
AllContainersReady(w) ==
    /\ submitted[w] = "created"
    /\ Len(probes[w]) = Cardinality(ContainersOf[podTemplateExecutions[w[1]][w[2]]])
    /\ \A k \in 1..Len(probes[w]) : probes[w][k] \in ProbeOK

\* the layer was evaluated without error: the run went on past it
LayerSucceeded(i) ==
    /\ i \in 1..Len(podTemplateExecutions)
    /\ layerIdx > i \/ (pc = "done" /\ result = "ok")

\* C26: a worker that reports success created its pod and saw every
\* container of it pass the readiness check; a layer that completed
\* successfully has only such workers.
SuccessMeansReady ==
    /\ \A w \in AllSpawned : ReportsSuccess(w) => AllContainersReady(w)
    /\ \A i \in 1..MaxLayers : LayerSucceeded(i) =>
            \A w \in WorkersOfLayer(i) : ReportsSuccess(w) /\ AllContainersReady(w)

SuccessMeansReadyWitness ==
    /\ LayerSucceeded(1)
    /\ \A w \in WorkersOfLayer(1) : Len(probes[w]) = 2 /\ AllContainersReady(w)
    /\ \E w \in WorkersOfLayer(2) : wfailed[w] = {"deploy"} /\ probes[w] # <<>>

\* workers that rendered template t and had its pod created
DeployedBy(t) == {w \in Workers : rendered[w] = t /\ submitted[w] = "created"}

\* C27: one worker is spawned per entry of each layer and works on the
\* template of its own entry; when the run returns success and the layers
\* reference each loaded template once, every loaded template has been
\* rendered and submitted by exactly one worker, whatever the interleaving.
EachTemplateDeployedOnce ==
    /\ \A w \in Workers : Spawned(w) => w \in AllSpawned
    /\ \A w \in Workers : rendered[w] # None =>
            Spawned(w) /\ rendered[w] = podTemplateExecutions[w[1]][w[2]]
    /\ (pc = "done" /\ result = "ok" /\ ReferencesMatchLoaded) =>
            /\ \A w \in AllSpawned : wpc[w] = "done" /\ w \in DeployedBy(rendered[w])
            /\ \A t \in tmpls : Cardinality(DeployedBy(t)) = 1

EachTemplateDeployedOnceWitness ==
    /\ pc = "done" /\ result = "ok" /\ ReferencesMatchLoaded
    /\ tmpls = TemplateNames /\ Len(podTemplateExecutions) = 1
    /\ \A t \in tmpls : Cardinality(DeployedBy(t)) = 1

\* the container whose JoinAndRemove call worker w has reached (line 483)
Pending(w) ==
    {c \in NonZero(CountOf(w)) : c \notin wtodo[w] /\ wenv[w][c] = <<>>}

\* C28: an allocation that asks for more addresses than the pool holds
\* fails as an insufficient-resources failure of the worker; it does not
\* end the process, and no container holds fewer addresses than its
\* annotation requests.
ShortfallFailsTheWorker ==
    /\ \A w \in Workers : \A c \in ContainerNames :
            (wpc[w] = "allocWrite" /\ c \in Pending(w)
                /\ CountOf(w)[c] > Len(pciAddresses)) => pc # "panic"
    /\ \A w \in Workers : \A c \in ContainerNames :
            wenv[w][c] # <<>> => Len(wenv[w][c]) >= CountOf(w)[c]

\* the annotations whose key matches the card-count pattern
Matching(ann) == {k \in DOMAIN ann : isSpyreCardAnnotation(k).ok}
\* the count each matching annotation declares, by container name
DeclaredCounts(ann) ==
    [n \in {k[2] : k \in Matching(ann)} |-> Atoi(ann[<<SpyreCountKey, n>>]).val]
FetchReturned == calc.fetched.of # None
FetchedAnnotations == calc.annotations[calc.fetched.of]
TotalsOf(names) ==
    [t \in names |-> SumOver(DeclaredCounts(calc.annotations[t]),
                             DOMAIN DeclaredCounts(calc.annotations[t]))]

\* what holds of every return of fetchSpyreCardsFromPodAnnotations, with or
\* without error, and of calculateReqSpyreCards
UnmatchedIgnoredAndSummed ==
    /\ FetchReturned =>
        /\ calc.fetched.err <=> \E k \in Matching(FetchedAnnotations) :
                                    ~Atoi(FetchedAnnotations[k]).ok
        /\ Matching(FetchedAnnotations) = {} =>
                /\ calc.fetched.spyreCards = 0 /\ ~calc.fetched.err
                /\ calc.fetched.spyreCardContainerMap = EmptyMap
        /\ ~calc.fetched.err =>
                /\ calc.fetched.spyreCardContainerMap = DeclaredCounts(FetchedAnnotations)
                /\ calc.fetched.spyreCards =
                       fetchSpyreCardsFromPodAnnotations(FetchedAnnotations).spyreCards
                /\ calc.fetched.spyreCardContainerMap =
                       fetchSpyreCardsFromPodAnnotations(FetchedAnnotations).spyreCardContainerMap
                /\ calc.fetched.skipped = DOMAIN FetchedAnnotations \ Matching(FetchedAnnotations)
    /\ (calc.pc = "done" /\ calc.ret = "ok") =>
        LET names == Range(calc.podTemplateFileNames) IN
        /\ calc.totalReqSpyreCounts = SumOver(TotalsOf(names), names)
        /\ calculateReqSpyreCards(names, calc.annotations) =
               [err |-> FALSE, total |-> calc.totalReqSpyreCounts]
    /\ (calc.pc = "done" /\ calc.ret = "InvalidAnnotationValue") =>
        calculateReqSpyreCards(Range(calc.podTemplateFileNames), calc.annotations).err

\* C29 as stated: whatever the annotation set, the total returned is the sum
\* of the per-container counts returned, unmatched keys are ignored, no
\* matching key gives 0, the empty map and no error, and
\* calculateReqSpyreCards returns the sum of the totals of all templates.
TotalIsSumOfCounts ==
    /\ UnmatchedIgnoredAndSummed
    /\ FetchReturned =>
        calc.fetched.spyreCards =
            SumOver(calc.fetched.spyreCardContainerMap, DOMAIN calc.fetched.spyreCardContainerMap)

\* C29, amended: the total is the sum of the returned counts for every
\* annotation set whose matching values are all integers; when a value is no
\* integer the error comes with total 0 and with the counts parsed before it,
\* which need not sum to 0.
TotalIsSumOfCountsWithoutError ==
    /\ UnmatchedIgnoredAndSummed
    /\ (FetchReturned /\ ~calc.fetched.err) =>
        calc.fetched.spyreCards =
            SumOver(calc.fetched.spyreCardContainerMap, DOMAIN calc.fetched.spyreCardContainerMap)
    /\ (FetchReturned /\ calc.fetched.err) =>
        /\ calc.fetched.spyreCards = 0
        /\ \A n \in DOMAIN calc.fetched.spyreCardContainerMap :
              /\ n \in DOMAIN DeclaredCounts(FetchedAnnotations)
              /\ calc.fetched.spyreCardContainerMap[n] = DeclaredCounts(FetchedAnnotations)[n]

TotalIsSumOfCountsWithoutErrorWitness ==
    /\ calc.pc = "done" /\ calc.ret = "ok" /\ Len(calc.podTemplateFileNames) = 2
    /\ calc.totalReqSpyreCounts = 2 /\ calc.fetched.spyreCards = 1
    /\ calc.fetched.skipped # {}

\* the lines that read y or yes once trimmed and lowered
AffirmativeResponses ==
    {<<"y", "\n">>, <<"Y", "E", "S", "\n">>, <<" ", "y", "e", "s", " ", "\n">>}

\* C30: 'application delete' calls DeletePod only after the user answered y
\* or yes: after any other line (n, no, the empty line, other text), after a
\* failed read and when no pod carries the application's label, no delete
\* was attempted and every listed pod is still there.
DeleteOnlyAfterYes ==
    /\ del.pc # "idle" =>
        /\ del.attempted # <<>> => (del.confirmed /\ del.line \in AffirmativeResponses)
        /\ del.line \notin AffirmativeResponses =>
              /\ del.attempted = <<>> /\ del.present = Range(del.pods)
              /\ del.pc \notin {"loop", "aggregate"}
        /\ del.pods = <<>> => del.attempted = <<>>
        /\ (del.line # <<>> /\ del.line \notin AffirmativeResponses) => del.pc = "done"

DeleteOnlyAfterYesWitness ==
    /\ del.pc = "done" /\ del.line = <<"\n">> /\ Len(del.pods) = 2
    /\ del.attempted = <<>> /\ del.present = Range(del.pods)

====
